---- MODULE Spec2Model ----
(***************************************************************************)
(* Model of the upload-and-analyze client of src/src/App.tsx: the React    *)
(* view state (selectedImage, result, isLoading, error), the file input    *)
(* control, the FileReader reads that are pending, and the handleAnalyze   *)
(* calls suspended at one of their awaits.  Every action is one task of    *)
(* the single-threaded event loop: a user event handler, a FileReader      *)
(* completion, or the continuation of handleAnalyze after an await.        *)
(***************************************************************************)
EXTENDS Integers, Sequences, FiniteSets, TLC

(* ------------------------------ bounds --------------------------------- *)
\* FileReader reads that may be pending at the same time
MaxReaders == 2
\* handleAnalyze runs that are counted before the Analyze click is cut off
MaxAnalyses == 2

(* ----------------------------- constants ------------------------------- *)
MAX_FILE_SIZE == 10 * 1024 * 1024
ALLOWED_TYPES == {"image/jpeg", "image/png", "image/jpg", "image/webp"}

(* ------------------------------ values --------------------------------- *)
\* error: string | null.  A message is a record; status and body are the two
\* values the server-error template interpolates (0 and "" elsewhere).
Msg(k, st, b) == [kind |-> k, status |-> st, body |-> b]
NoError == Msg("null", 0, "")
InvalidTypeMsg == Msg("Tipo de arquivo invalido", 0, "")
TooLargeMsg == Msg("Arquivo muito grande", 0, "")
ReadErrorMsg == Msg("Erro ao ler o arquivo", 0, "")
InvalidResponseMsg == Msg("Resposta invalida do servidor", 0, "")
\* messages of the exceptions the platform throws
DecodeErrorMsg == Msg("InvalidCharacterError", 0, "")
NetworkErrorMsg == Msg("Failed to fetch", 0, "")
AbortErrorMsg == Msg("AbortError", 0, "")
SyntaxErrorMsg == Msg("SyntaxError", 0, "")
\* `Erro do servidor (${response.status}): ${await response.text()}`
ServerErrorMsg(st, b) == Msg("Erro do servidor", st, b)

\* A JavaScript value of a response field: undefined, null, a string or a
\* number.  Probabilities are kept in hundredths (87 is 0.87).
JsUndefined == [tag |-> "undefined", s |-> "", n |-> 0]
JsNull == [tag |-> "null", s |-> "", n |-> 0]
JsString(str) == [tag |-> "string", s |-> str, n |-> 0]
JsNumber(num) == [tag |-> "number", s |-> "", n |-> num]

\* result: { predicao, probabilidade } | null
NoResult == [predicao |-> JsUndefined, probabilidade |-> JsUndefined]
ErrorResult == [predicao |-> JsString("Erro na Analise"), probabilidade |-> JsNumber(0)]

\* candidate files: name, declared MIME type, byte size
File(nm, ty, sz) == [name |-> nm, type |-> ty, size |-> sz]
NoFile == File("", "", 0)
Files ==
    { File("a.png", "image/png", MAX_FILE_SIZE),
      File("empty.webp", "image/webp", 0),
      File("big.png", "image/png", MAX_FILE_SIZE + 1),
      File("doc.pdf", "application/pdf", MAX_FILE_SIZE + 1) }

\* selectedImage: string | null.  A data URI is identified by the file it was
\* read from; b64 tells whether it has a base64 part after a comma.
DataURI(nm, hasB64) == [file |-> nm, b64 |-> hasB64]
NoImage == DataURI("", FALSE)

\* reader.result of a read that succeeded.  readAsDataURL of an empty file
\* gives "data:" in some browsers (no comma, no base64 part) and
\* "data:<type>;base64," in others.
ReadResults(f) ==
    IF f.size = 0 THEN {DataURI(f.name, TRUE), DataURI(f.name, FALSE)}
    ELSE {DataURI(f.name, TRUE)}

\* response bodies: the raw text of an error response ...
BodyTexts == {"internal error", ""}
\* ... and what response.json() makes of a 2xx body: a rejection (not JSON),
\* null, a primitive, or an object with the two fields.
Json(k, p, q) == [kind |-> k, predicao |-> p, probabilidade |-> q]
PredicaoValues == {JsUndefined, JsNull, JsString("Tuberculose")}
ProbabilidadeValues == {JsUndefined, JsNumber(87), JsNumber(150)}
JsonBodies ==
    { Json("notjson", JsUndefined, JsUndefined),
      Json("null", JsUndefined, JsUndefined),
      Json("number", JsUndefined, JsUndefined) }
    \cup { Json("object", p, q) : p \in PredicaoValues, q \in ProbabilidadeValues }
Statuses == {200, 500}

(* ------------------------------- state --------------------------------- *)
VARIABLES
    selectedImage,   \* useState: the data URI shown and analysed
    result,          \* useState: the prediction shown
    isLoading,       \* useState: the in-flight flag
    error,           \* useState: the error banner
    inputValue,      \* the file held by the <input type="file"> control
    readers,         \* pending FileReader reads, oldest first
    calls,           \* handleAnalyze runs suspended at an await
    resultFor,       \* history: the image the run that wrote result started on
    lastEvent,       \* history: the task that produced this state
    started,         \* history: handleAnalyze runs that got past its guard
    sent,            \* history: POST requests handed to fetch
    outcomes         \* history: runs that reached their finally block

vars == <<selectedImage, result, isLoading, error, inputValue, readers, calls,
          resultFor, lastEvent, started, sent, outcomes>>

\* lastEvent: the kind of task, and what the environment gave it
NoJson == [kind |-> "", predicao |-> JsUndefined, probabilidade |-> JsUndefined]
\* chosen is the name of the valid file chosen most recently, by either
\* path, and latest what became of its read; both outlive the task.
NoEvent ==
    [kind |-> "init", path |-> "", file |-> NoFile, prev |-> NoImage,
     cause |-> "", status |-> 0, body |-> "", data |-> NoJson,
     chosen |-> "", latest |-> ""]
Carry == [NoEvent EXCEPT !.chosen = lastEvent.chosen, !.latest = lastEvent.latest]
Failure(c, st, b) == [Carry EXCEPT !.kind = "failure", !.cause = c,
                                   !.status = st, !.body = b]

Init ==
    /\ selectedImage = NoImage
    /\ result = NoResult
    /\ isLoading = FALSE
    /\ error = NoError
    /\ inputValue = NoFile
    /\ readers = <<>>
    /\ calls = <<>>
    /\ resultFor = NoImage
    /\ lastEvent = NoEvent
    /\ started = 0
    /\ sent = 0
    /\ outcomes = 0

(* ------------------------- pure functions ------------------------------ *)
\* variant: the size rule is applied before the type rule
validateFileSizeFirst(file) ==
    IF file.size > MAX_FILE_SIZE THEN TooLargeMsg
    ELSE IF file.type \notin ALLOWED_TYPES THEN InvalidTypeMsg
    ELSE NoError

\* variant: a file of exactly MAX_FILE_SIZE bytes is already too large
validateFileInclusive(file) ==
    IF file.type \notin ALLOWED_TYPES THEN InvalidTypeMsg
    ELSE IF file.size >= MAX_FILE_SIZE THEN TooLargeMsg
    ELSE NoError

validateFile(file) ==
    IF file.type \notin ALLOWED_TYPES THEN InvalidTypeMsg
    ELSE IF file.size > MAX_FILE_SIZE THEN TooLargeMsg
    ELSE NoError

RemoveAt(s, i) == SubSeq(s, 1, i - 1) \o SubSeq(s, i + 1, Len(s))

\* new FileReader(); reader.readAsDataURL(file): the read is pending until
\* one of the completion tasks below runs
Reader(p, f) == [path |-> p, file |-> f]

\* history of a choice: a file that passes validation is the latest chosen
Chosen(file) ==
    IF file # NoFile /\ validateFile(file) = NoError
    THEN [Carry EXCEPT !.chosen = file.name, !.latest = "pending"]
    ELSE Carry

\* history of a completion: the read started last is the last of readers
\* for as long as it is pending
Completed(i, how) ==
    IF lastEvent.latest = "pending" /\ i = Len(readers)
    THEN [Carry EXCEPT !.latest = how]
    ELSE Carry

(* --------------------------- file selection ---------------------------- *)
handleImageUpload(file) ==
    /\ result' = NoResult
    /\ resultFor' = NoImage
    /\ IF file = NoFile
       THEN /\ error' = NoError
            /\ inputValue' = NoFile
            /\ UNCHANGED readers
       ELSE IF validateFile(file) # NoError
       THEN /\ error' = validateFile(file)
            /\ inputValue' = NoFile
            /\ UNCHANGED readers
       ELSE /\ Len(readers) < MaxReaders
            /\ error' = NoError
            /\ inputValue' = file
            /\ readers' = Append(readers, Reader("picker", file))
    /\ lastEvent' = [Chosen(file) EXCEPT !.kind = "change", !.path = "picker",
                                         !.file = file, !.prev = selectedImage]
    /\ UNCHANGED <<selectedImage, isLoading, calls, started, sent, outcomes>>

\* The drop zone is rendered only while no image is selected.
DropZoneRendered == selectedImage = NoImage

\* variant: the drop handler clears the banner before validating, as the
\* picker handler does, but leaves the result
handleDropClearsError(file) ==
    /\ DropZoneRendered
    /\ IF file = NoFile
       THEN error' = NoError /\ UNCHANGED readers
       ELSE IF validateFile(file) # NoError
       THEN /\ error' = validateFile(file)
            /\ UNCHANGED readers
       ELSE /\ Len(readers) < MaxReaders
            /\ readers' = Append(readers, Reader("drop", file))
            /\ error' = NoError
    /\ lastEvent' = [Chosen(file) EXCEPT !.kind = "drop", !.path = "drop",
                                         !.file = file, !.prev = selectedImage]
    /\ UNCHANGED <<selectedImage, result, isLoading, inputValue, calls,
                   resultFor, started, sent, outcomes>>

handleDrop(file) ==
    /\ DropZoneRendered
    /\ IF file = NoFile
       THEN UNCHANGED <<error, readers>>
       ELSE IF validateFile(file) # NoError
       THEN /\ error' = validateFile(file)
            /\ UNCHANGED readers
       ELSE /\ Len(readers) < MaxReaders
            /\ readers' = Append(readers, Reader("drop", file))
            /\ UNCHANGED error
    /\ lastEvent' = [Chosen(file) EXCEPT !.kind = "drop", !.path = "drop",
                                         !.file = file, !.prev = selectedImage]
    /\ UNCHANGED <<selectedImage, result, isLoading, inputValue, calls,
                   resultFor, started, sent, outcomes>>

\* reader.onloadend after a read that succeeded; reader.result is the data URI
ReaderLoadEnd(i, uri) ==
    /\ i \in 1..Len(readers)
    /\ uri \in ReadResults(readers[i].file)
    /\ selectedImage' = uri
    /\ IF readers[i].path = "drop"
       THEN result' = NoResult /\ resultFor' = NoImage
       ELSE UNCHANGED <<result, resultFor>>
    /\ readers' = RemoveAt(readers, i)
    /\ lastEvent' = [Completed(i, "loaded") EXCEPT
                        !.kind = "load", !.path = readers[i].path,
                        !.prev = selectedImage]
    /\ UNCHANGED <<isLoading, error, inputValue, calls, started, sent, outcomes>>

\* A read that failed: the reader fires error and then loadend in one task,
\* with reader.result null.
ReaderError(i) ==
    /\ i \in 1..Len(readers)
    /\ error' = ReadErrorMsg
    /\ selectedImage' = NoImage
    /\ IF readers[i].path = "drop"
       THEN result' = NoResult /\ resultFor' = NoImage
       ELSE UNCHANGED <<result, resultFor>>
    /\ readers' = RemoveAt(readers, i)
    /\ lastEvent' = [Completed(i, "failed") EXCEPT
                        !.kind = "readerror", !.path = readers[i].path,
                        !.prev = selectedImage]
    /\ UNCHANGED <<isLoading, inputValue, calls, started, sent, outcomes>>

(* ------------------------------ analysis ------------------------------- *)
\* variant: the button is disabled only while no image is selected
AnalyzeDisabledIgnoresLoading == selectedImage = NoImage

\* disabled={!selectedImage || isLoading} of the Analyze button
AnalyzeDisabled == selectedImage = NoImage \/ isLoading

\* response.ok
ResponseOk(status) == status >= 200 /\ status <= 299

\* data.predicao / data.probabilidade: undefined on a primitive
Field(data, f) == IF data.kind = "object" THEN data[f] ELSE JsUndefined

\* !data || typeof data.predicao === 'undefined'
\*       || typeof data.probabilidade === 'undefined'
ResponseRejected(data) ==
    \/ data.kind = "null"
    \/ Field(data, "predicao").tag = "undefined"
    \/ Field(data, "probabilidade").tag = "undefined"

\* variant: the catch block takes the fallback text for every exception
CatchMessageFallback(e) == Msg("Erro desconhecido", 0, "")

\* error instanceof Error ? error.message : 'Erro desconhecido'; every
\* exception thrown in the try block is an Error
CatchMessage(e) == e

\* a handleAnalyze run suspended at await fetch(...), with its abort timer
Call(img) == [image |-> img, pc |-> "fetch", timer |-> TRUE, status |-> 0]

\* variant: the in-flight flag is cleared at the end of the try block only,
\* so a run that throws leaves it set
ThrowWithoutFinally(i, e, ev) ==
    /\ error' = CatchMessage(e)
    /\ result' = ErrorResult
    /\ resultFor' = calls[i].image
    /\ calls' = RemoveAt(calls, i)
    /\ outcomes' = outcomes + 1
    /\ lastEvent' = ev
    /\ UNCHANGED <<selectedImage, isLoading, inputValue, readers, started, sent>>

\* variant: the catch block sends the request again instead of giving up
ThrowThenRetry(i, e, ev) ==
    /\ error' = CatchMessage(e)
    /\ calls' = [calls EXCEPT ![i] = [@ EXCEPT !.pc = "fetch", !.timer = TRUE,
                                               !.status = 0]]
    /\ sent' = sent + 1
    /\ lastEvent' = ev
    /\ UNCHANGED <<selectedImage, result, resultFor, isLoading, inputValue,
                   readers, started, outcomes>>

\* catch and finally of the run calls[i], after e was thrown in its try block
Throw(i, e, ev) ==
    /\ error' = CatchMessage(e)
    /\ result' = ErrorResult
    /\ resultFor' = calls[i].image
    /\ isLoading' = FALSE
    /\ calls' = RemoveAt(calls, i)
    /\ outcomes' = outcomes + 1
    /\ lastEvent' = ev
    /\ UNCHANGED <<selectedImage, inputValue, readers, started, sent>>

\* variant: handleAnalyze without its guard on selectedImage
handleAnalyzeUnguarded ==
    /\ started' = started + 1
    /\ IF selectedImage.b64
       THEN /\ isLoading' = TRUE
            /\ error' = NoError
            /\ result' = NoResult
            /\ resultFor' = NoImage
            /\ calls' = Append(calls, Call(selectedImage))
            /\ sent' = sent + 1
            /\ lastEvent' = [Carry EXCEPT !.kind = "analyze"]
            /\ UNCHANGED outcomes
       ELSE /\ isLoading' = FALSE
            /\ error' = CatchMessage(DecodeErrorMsg)
            /\ result' = ErrorResult
            /\ resultFor' = selectedImage
            /\ outcomes' = outcomes + 1
            /\ lastEvent' = Failure("decode", 0, "")
            /\ UNCHANGED <<calls, sent>>
    /\ UNCHANGED <<selectedImage, inputValue, readers>>

\* handleAnalyze up to its first await
handleAnalyze ==
    IF selectedImage = NoImage
    THEN UNCHANGED vars
    ELSE /\ started' = started + 1
         /\ IF selectedImage.b64
            THEN /\ isLoading' = TRUE
                 /\ error' = NoError
                 /\ result' = NoResult
                 /\ resultFor' = NoImage
                 /\ calls' = Append(calls, Call(selectedImage))
                 /\ sent' = sent + 1
                 /\ lastEvent' = [Carry EXCEPT !.kind = "analyze"]
                 /\ UNCHANGED outcomes
            ELSE \* atob throws: catch and finally run before any await
                 /\ isLoading' = FALSE
                 /\ error' = CatchMessage(DecodeErrorMsg)
                 /\ result' = ErrorResult
                 /\ resultFor' = selectedImage
                 /\ outcomes' = outcomes + 1
                 /\ lastEvent' = Failure("decode", 0, "")
                 /\ UNCHANGED <<calls, sent>>
         /\ UNCHANGED <<selectedImage, inputValue, readers>>

\* await fetch(...) resolves with the response headers; clearTimeout
FetchResolved(i, status) ==
    /\ calls[i].pc = "fetch"
    /\ calls' = [calls EXCEPT ![i] =
                    [@ EXCEPT !.pc = IF ResponseOk(status) THEN "json" ELSE "text",
                              !.timer = FALSE, !.status = status]]
    /\ lastEvent' = [Carry EXCEPT !.kind = "headers", !.status = status]
    /\ UNCHANGED <<selectedImage, result, isLoading, error, inputValue, readers,
                   resultFor, started, sent, outcomes>>

\* await fetch(...) rejects: the network failed
FetchRejected(i) ==
    /\ calls[i].pc = "fetch"
    /\ Throw(i, NetworkErrorMsg, Failure("network", calls[i].status, ""))

\* the timer set by setTimeout fires: controller.abort() rejects the fetch
TimeoutFired(i) ==
    /\ calls[i].pc = "fetch"
    /\ calls[i].timer
    /\ Throw(i, AbortErrorMsg, Failure("timeout", 0, ""))

\* await response.text() resolves on a non-2xx response
TextResolved(i, text) ==
    /\ calls[i].pc = "text"
    /\ Throw(i, ServerErrorMsg(calls[i].status, text), Failure("http", calls[i].status, text))

\* await response.text() or response.json() rejects: the body stream failed
BodyRejected(i) ==
    /\ calls[i].pc \in {"text", "json"}
    /\ Throw(i, NetworkErrorMsg, Failure("network", calls[i].status, ""))

\* await response.json() settles on a 2xx response
JsonSettled(i, data) ==
    /\ calls[i].pc = "json"
    /\ IF data.kind = "notjson"
       THEN Throw(i, SyntaxErrorMsg, Failure("parse", calls[i].status, ""))
       ELSE IF ResponseRejected(data)
       THEN Throw(i, InvalidResponseMsg, Failure("incomplete", calls[i].status, ""))
       ELSE /\ result' = [predicao |-> data.predicao,
                          probabilidade |-> data.probabilidade]
            /\ resultFor' = calls[i].image
            /\ isLoading' = FALSE
            /\ calls' = RemoveAt(calls, i)
            /\ outcomes' = outcomes + 1
            /\ lastEvent' = [Carry EXCEPT !.kind = "success", !.data = data,
                                            !.status = calls[i].status]
            /\ UNCHANGED <<selectedImage, error, inputValue, readers, started, sent>>

(* ---------------------------- specification ---------------------------- *)
\* The browser fires change when the selection of the control changes: to
\* another file, or to no file.
PickerChange == \E f \in Files \cup {NoFile} : f # inputValue /\ handleImageUpload(f)
Drop == \E f \in Files \cup {NoFile} : handleDrop(f)
ReadDone == \E i \in 1..Len(readers) : \E uri \in ReadResults(readers[i].file) : ReaderLoadEnd(i, uri)
ReadFailed == \E i \in 1..Len(readers) : ReaderError(i)
AnalyzeClick == ~AnalyzeDisabled /\ started < MaxAnalyses /\ handleAnalyze
Headers == \E i \in 1..Len(calls) : \E st \in Statuses : FetchResolved(i, st)
NetworkFailure == \E i \in 1..Len(calls) : FetchRejected(i)
Timeout == \E i \in 1..Len(calls) : TimeoutFired(i)
ErrorBody == \E i \in 1..Len(calls) : \E t \in BodyTexts : TextResolved(i, t)
BodyFailure == \E i \in 1..Len(calls) : BodyRejected(i)
JsonBody == \E i \in 1..Len(calls) : \E d \in JsonBodies : JsonSettled(i, d)

Next ==
    \/ PickerChange
    \/ Drop
    \/ ReadDone
    \/ ReadFailed
    \/ AnalyzeClick
    \/ Headers
    \/ NetworkFailure
    \/ Timeout
    \/ ErrorBody
    \/ BodyFailure
    \/ JsonBody

Spec == Init /\ [][Next]_vars

\* validateFile on its own: any candidate file, by declared type and size,
\* is handed to the validator and the message it returns is kept in error.
CandidateTypes ==
    ALLOWED_TYPES \cup {"image/gif", "application/pdf", "IMAGE/PNG", ""}
CandidateSizes ==
    {0, 1, 5 * 1024 * 1024, 5 * 1024 * 1024 + 1, MAX_FILE_SIZE - 1,
     MAX_FILE_SIZE, MAX_FILE_SIZE + 1, 2 * MAX_FILE_SIZE}
CandidateNames == {"scan.png", "scan.bin"}
CandidateFiles ==
    { File(nm, ty, sz) : nm \in CandidateNames, ty \in CandidateTypes,
                         sz \in CandidateSizes }

ValidateInit ==
    /\ inputValue \in CandidateFiles
    /\ selectedImage = NoImage
    /\ result = NoResult
    /\ isLoading = FALSE
    /\ error = NoError
    /\ readers = <<>>
    /\ calls = <<>>
    /\ resultFor = NoImage
    /\ lastEvent = NoEvent
    /\ started = 0
    /\ sent = 0
    /\ outcomes = 0

Validate ==
    /\ lastEvent.kind = "init"
    /\ error' = validateFile(inputValue)
    /\ lastEvent' = [NoEvent EXCEPT !.kind = "validate", !.file = inputValue]
    /\ UNCHANGED <<selectedImage, result, isLoading, inputValue, readers, calls,
                   resultFor, started, sent, outcomes>>

ValidateSpec == ValidateInit /\ [][Validate]_vars

\* The abort timer is the only step the client itself guarantees: an armed
\* timer fires.  Whether and when the server answers is up to the server.
FairSpec == Spec /\ WF_vars(Timeout)

(* ------------------------------- claims -------------------------------- *)
\* C1: at most one analysis request is in flight in every reachable state:
\* no second handleAnalyze starts while an earlier one has not completed.
AtMostOneInFlight == Len(calls) <= 1

\* a request is in flight for an image that is still selected: only isLoading
\* keeps the Analyze button disabled
InFlightWithImageSelected ==
    /\ Len(calls) = 1
    /\ selectedImage # NoImage
    /\ AnalyzeDisabled

\* C2: whenever a result is present, it was written by the handleAnalyze run
\* that started on the image that is now selected.
ResultBelongsToSelectedImage == result # NoResult => resultFor = selectedImage

\* C3: in the state right after a read completion has replaced selectedImage
\* with a newly loaded image, the result is absent.
LoadedImageHasNoResult == lastEvent.kind = "load" => result = NoResult

\* C4: in the state right after a read failure, the error is the
\* could-not-read message and selectedImage is what it was before.
ReadFailureKeepsImage ==
    lastEvent.kind = "readerror" =>
        error = ReadErrorMsg /\ selectedImage = lastEvent.prev

\* C5: every started analysis eventually clears the in-flight flag, whatever
\* the server does.
AnalysisTerminates == isLoading ~> ~isLoading

\* C6: in the state right after a successful completion, the result is the
\* pair of the response and there is no error.
SuccessLeavesNoError ==
    lastEvent.kind = "success" =>
        /\ result = [predicao |-> lastEvent.data.predicao,
                     probabilidade |-> lastEvent.data.probabilidade]
        /\ error = NoError

\* the message each kind of failure carries
FailureMessage(ev) ==
    CASE ev.cause = "decode" -> DecodeErrorMsg
      [] ev.cause = "network" -> NetworkErrorMsg
      [] ev.cause = "timeout" -> AbortErrorMsg
      [] ev.cause = "parse" -> SyntaxErrorMsg
      [] ev.cause = "incomplete" -> InvalidResponseMsg
      [] ev.cause = "http" -> ServerErrorMsg(ev.status, ev.body)

\* C7: in the state right after a failed analysis, of any kind, the error is
\* the message of the failure and the result is the sentinel; for a non-2xx
\* status the message carries the status code and the raw body text.
FailureShowsMessageAndSentinel ==
    lastEvent.kind = "failure" =>
        /\ result = ErrorResult
        /\ error # NoError
        /\ error = FailureMessage(lastEvent)
        /\ lastEvent.cause = "http" =>
               error.status = lastEvent.status /\ error.body = lastEvent.body

\* an analysis has just failed on a 500 response with body "internal error"
ServerErrorShown ==
    /\ lastEvent.kind = "failure"
    /\ lastEvent.cause = "http"
    /\ lastEvent.status = 500
    /\ lastEvent.body = "internal error"
    /\ result = ErrorResult

\* C8: an analysis succeeds only on a body with a string predicao and a
\* numeric probabilidade, so every stored result other than the sentinel is a
\* string label with a number in [0,1].
StoredResultWellTyped ==
    /\ lastEvent.kind = "success" =>
           /\ lastEvent.data.predicao.tag = "string"
           /\ lastEvent.data.probabilidade.tag = "number"
    /\ (result # NoResult /\ result # ErrorResult) =>
           /\ result.predicao.tag = "string"
           /\ result.probabilidade.tag = "number"
           /\ result.probabilidade.n \in 0..100

\* C9: isLoading is true in exactly the states where one request is
\* outstanding, and false after every completion, failed or not.
LoadingIffRequestOutstanding ==
    /\ isLoading <=> Len(calls) = 1
    /\ lastEvent.kind \in {"failure", "success"} => ~isLoading

\* an analysis has just timed out and the flag is clear again
IdleAfterTimeout ==
    /\ lastEvent.kind = "failure"
    /\ lastEvent.cause = "timeout"
    /\ ~isLoading
    /\ calls = <<>>

\* C10 as stated: the number of requests sent always equals the number of
\* analyses started.
RequestsEqualAnalyses == sent = started

\* C10 as amended: an analysis sends one request when it starts, unless the
\* payload of the selected image cannot be decoded, and then none; no other
\* step sends a request; every analysis that started is either suspended or
\* has reached one outcome, and the flag is cleared by an outcome only.
AnalysisStep ==
    /\ started' \in {started, started + 1}
    /\ started' = started + 1 =>
           sent' = sent + (IF selectedImage.b64 THEN 1 ELSE 0)
    /\ started' = started => sent' = sent
    /\ outcomes' \in {outcomes, outcomes + 1}
    /\ (isLoading /\ ~isLoading') => outcomes' = outcomes + 1

OneRequestPerDecodableAnalysis ==
    /\ [](sent <= started /\ outcomes + Len(calls) = started)
    /\ [][AnalysisStep]_vars

\* two analyses have run to their outcome: one failed at decoding and sent
\* nothing, the other sent its one request
DecodeFailureAndOneRequest ==
    /\ started = 2
    /\ sent = 1
    /\ outcomes = 2
    /\ ~isLoading

\* C11: a candidate file whose declared type is not an allowed one, offered
\* through the picker or by drop, sets the invalid-type message, starts no
\* read and leaves selectedImage as it was.
DisallowedTypeStep ==
    (/\ lastEvent'.kind \in {"change", "drop"}
     /\ lastEvent'.file # NoFile
     /\ lastEvent'.file.type \notin
            {"image/jpeg", "image/png", "image/jpg", "image/webp"})
    => /\ error' = InvalidTypeMsg
       /\ readers' = readers
       /\ selectedImage' = selectedImage

DisallowedTypeRejected == [][DisallowedTypeStep]_vars

\* a PDF has just been offered through the picker while an image is selected
PdfRejectedWithImageSelected ==
    /\ lastEvent.kind = "change"
    /\ lastEvent.file.type = "application/pdf"
    /\ selectedImage # NoImage
    /\ error = InvalidTypeMsg

DropSameAsPicker ==
    /\ DropZoneRendered =>
         \A f \in Files \cup {NoFile} :
           \A e \in {NoError, InvalidTypeMsg, TooLargeMsg, error} :
             \A r \in {NoResult, result} :
               (ENABLED (handleDrop(f) /\ error' = e /\ result' = r))
               <=> (ENABLED (handleImageUpload(f) /\ error' = e /\ result' = r))
    /\ \A i, j \in 1..Len(readers) :
         (readers[i].file = readers[j].file /\ readers[i].path # readers[j].path) =>
           \A r \in {NoResult, result} :
             /\ \A uri \in ReadResults(readers[i].file) :
                  (ENABLED (ReaderLoadEnd(i, uri) /\ result' = r))
                  <=> (ENABLED (ReaderLoadEnd(j, uri) /\ result' = r))
             /\ (ENABLED (ReaderError(i) /\ result' = r))
                <=> (ENABLED (ReaderError(j) /\ result' = r))

\* C14: an analysis starts only where an image is selected and no request is
\* in flight, and handleAnalyze run with no image selected sends nothing and
\* leaves selectedImage, result, error and isLoading as they are.
AnalyzeOnlyWithImageAndIdle ==
    /\ (ENABLED (AnalyzeClick /\ started' = started + 1)) =>
           (selectedImage # NoImage /\ ~isLoading)
    /\ selectedImage = NoImage =>
           ~ENABLED (/\ handleAnalyze
                     /\ <<selectedImage, result, error, isLoading, calls, sent>>'
                            # <<selectedImage, result, error, isLoading, calls, sent>>)

\* no image is selected while a banner is shown, and handleAnalyze can run
NoImageButBanner ==
    /\ selectedImage = NoImage
    /\ error # NoError
    /\ ~isLoading
    /\ ENABLED handleAnalyze

\* C15: after a picker selection has failed, by validation or by its read,
\* the value of the file input is empty.
PickerFailureClearsInput ==
    (\/ lastEvent.kind = "change" /\ error \in {InvalidTypeMsg, TooLargeMsg}
     \/ lastEvent.kind = "readerror" /\ lastEvent.path = "picker")
    => inputValue = NoFile

\* C16: once the read of the file chosen last has succeeded and no read is
\* pending, a read completion that succeeded leaves the file chosen last in
\* selectedImage.
LatestChoiceWins ==
    (/\ readers = <<>>
     /\ lastEvent.kind = "load"
     /\ lastEvent.latest = "loaded")
    => selectedImage.file = lastEvent.chosen

\* C17: whenever the result is the failure sentinel, an error is shown.
SentinelImpliesError == result = ErrorResult => error # NoError

\* the sentinel of a failed analysis is still shown after the image was lost
\* and a PDF was dropped
SentinelWithValidationError ==
    /\ result = ErrorResult
    /\ lastEvent.kind = "drop"
    /\ error = InvalidTypeMsg

\* C18: an input event that starts no read (a rejected file, or a change
\* event with no file) leaves selectedImage, result and isLoading as they are.
RejectedInputStep ==
    (lastEvent'.kind \in {"change", "drop"} /\ readers' = readers)
    => /\ selectedImage' = selectedImage
       /\ result' = result
       /\ isLoading' = isLoading

RejectedInputKeepsResult == [][RejectedInputStep]_vars

====
